---- MODULE Spec2Model ----
(***************************************************************************)
(* The vitals streaming pipeline of auralis: the browser-side              *)
(* SmartSpectraClient (reconnecting WebSocket client with threshold        *)
(* distress classification), its mock twin, and the native helper's        *)
(* WebSocket broadcast server; and, of the consultation page, the         *)
(* AudioController's voice loop and VideoFeed's emotion detection loop.    *)
(***************************************************************************)
EXTENDS Integers, Sequences, FiniteSets, TLC

\* ------------------------------------------------------------------ bounds
\* WebSocket objects of one client alive at the same time (created, close
\* event not yet delivered).
MaxSockets == 2
\* setTimeout ids the client can hold at the same time.
MaxTimers == 2
\* Connections the broadcast server has at the same time.
MaxSessions == 2
\* connect() timeouts of the mock armed at the same time.
MaxMockTimeouts == 2
\* setInterval ids of the mock alive at the same time.
MaxIntervals == 4
\* generateVitals() calls of the mock (its time counter).
MaxMockTime == 2
\* Command-line words of the helper, the program name included.
MaxArgc == 4
\* Calls of Stop() by the owner of the server object.
MaxStops == 2
\* Continuations (a pending getUserMedia, fetch, play(), media event or
\* 500 ms timer) the AudioController has in flight at the same time.
MaxPending == 3
\* MediaRecorder objects in state "recording" at the same time.
MaxRecordings == 2
\* forceStopListening events dispatched to the window.
MaxForceStops == 1
\* Results startEmotionDetection hands to onEmotionDetected.
MaxDetections == 6

\* ------------------------------------------------------- program constants
ReconnectDelayMs == 3000
PulseThreshold == 100
BreathingThreshold == 20

\* ------------------------------------------------------------------- state
VARIABLES
    ws,               \* SmartSpectraClient.ws: 0 (null) or a socket
    reconnectTimer,   \* SmartSpectraClient.reconnectTimer: 0 (null) or a timer id
    sockets,          \* the WebSocket objects this client created
    timers,           \* the event loop's armed timeouts: id -> delay
    calls,            \* consumer callbacks invoked by the last step, in order
    uncaught,         \* the last step let an exception escape its handler
    last,             \* the last step: what ran, on which socket, and the state before it
    userDisconnected, \* the consumer's last call was disconnect()
    consumerConnected, \* the consumer was last told "connected" (not "disconnected", and it has not called disconnect() since)
    connections_,     \* SmartSpectraWebSocketServer::connections_
    connections_mutex_, \* who holds the mutex: "none", "accept" or a callback thread
    conn,             \* each connection's transport, as websocketpp sees it
    acceptPc,         \* the accept (asio) thread: idle, or inside an open/close handler
    bc,               \* each metrics-callback thread's Broadcast in progress or last done
    impl,             \* the module the consumer imports SmartSpectraClient from
    mock,             \* MockSmartSpectraClient's fields
    mockTimeouts,     \* armed 500 ms timeouts of MockSmartSpectraClient.connect
    mockIntervals,    \* armed setInterval timers of the mock
    argc,             \* main's argc
    producer,         \* what the metrics producer's setup calls and the port's bind will answer
    mainPc,           \* the main thread's position in main / Start / Stop
    ws_thread_,       \* SmartSpectraWebSocketServer::ws_thread_ and its position
    stopped,          \* ws_server_'s io_service was stopped
    proc,             \* the process: running, exited with a code, or aborted
    runEntered,       \* container_->Run() was called
    stops,            \* calls of Stop() so far
    joinError,        \* join() was called on a thread that is not joinable
    wire,             \* one vitals sample on its way: extracted, as JSON text, as parsed by the client
    props,            \* AudioController's props autoStart and continuousMode
    ac,               \* AudioController's state, its refs, and whether its auto-start effect is due
    recorder,         \* AudioRecorder.mediaRecorder and the MediaRecorders recording
    pending,          \* AudioController's continuations in flight, by kind
    audioHist,        \* forceStopListening events handled, and what the last step did
    videoFeed,        \* VideoFeed's refs: cleanupDetectionRef, ageSamples, ageLocked, the video's readiness
    detection         \* one startEmotionDetection call: isRunning, its loop's position, its calls of onEmotionDetected

clientVars == <<ws, reconnectTimer, sockets, timers, userDisconnected, consumerConnected>>
histVars == <<calls, uncaught, last>>
serverVars == <<connections_, connections_mutex_, conn, acceptPc, bc>>
mockVars == <<mock, mockTimeouts, mockIntervals>>
mainVars == <<argc, producer, mainPc, ws_thread_, stopped, proc, runEntered, stops, joinError>>
vars == <<ws, reconnectTimer, sockets, timers, calls, uncaught, last, userDisconnected,
          consumerConnected,
          connections_, connections_mutex_, conn, acceptPc, bc,
          impl, mock, mockTimeouts, mockIntervals,
          argc, producer, mainPc, ws_thread_, stopped, proc, runEntered, stops, joinError,
          wire, props, ac, recorder, pending, audioHist, videoFeed, detection>>
audioVars == <<props, ac, recorder, pending, audioHist>>
faceVars == <<videoFeed, detection>>
\* What the steps of one component leave alone.
outsideClient == <<impl, mockVars, serverVars, mainVars, wire, audioVars, faceVars>>
outsideMock == <<impl, clientVars, serverVars, mainVars, wire, audioVars, faceVars>>
outsideServer == <<impl, clientVars, mockVars, histVars, mainVars, wire, audioVars, faceVars>>
outsideMain == <<impl, clientVars, mockVars, histVars, serverVars, wire, audioVars, faceVars>>
outsideWire == <<impl, clientVars, mockVars, histVars, serverVars, mainVars, audioVars, faceVars>>
outsideAudio == <<impl, clientVars, mockVars, histVars, serverVars, mainVars, wire, faceVars>>
outsideFace == <<impl, clientVars, mockVars, histVars, serverVars, mainVars, wire, audioVars>>

NoSock == 0
NoTimer == 0
SocketIds == 1..MaxSockets
TimerIds == 1..MaxTimers

\* A WebSocket: readyState, plus two history flags. FREE is a slot no live
\* object occupies (never created, or its close event has been delivered).
FreeSocket == [state |-> "FREE", userClosed |-> FALSE, gotBad |-> FALSE]
NewSocket == [state |-> "CONNECTING", userClosed |-> FALSE, gotBad |-> FALSE]

\* ---------------------------------------------------------------- payloads
\* A JSON field as JavaScript sees it after JSON.parse: a number, absent
\* (undefined), or a string (v is what Number(string) yields; nan for none).
Num(n) == [t |-> "num", v |-> n]
Undef == [t |-> "undef", v |-> 0]
NumStr(n) == [t |-> "numstr", v |-> n]
NanStr == [t |-> "nanstr", v |-> 0]

\* event.data: text that is not JSON, the JSON text null, or a JSON object.
Obj(ty, p, b, v) == [form |-> "object", type |-> ty, pulse |-> p, breathing |-> b, value |-> v]
Truncated == [form |-> "truncated", type |-> "", pulse |-> Undef, breathing |-> Undef, value |-> Undef]
JsonNull == [form |-> "null", type |-> "", pulse |-> Undef, breathing |-> Undef, value |-> Undef]
NoPayload == [form |-> "none", type |-> "", pulse |-> Undef, breathing |-> Undef, value |-> Undef]

PulseVals == {PulseThreshold, PulseThreshold + 1}
BreathingVals == {BreathingThreshold, BreathingThreshold + 1}
ValidVitals == {Obj("vitals", Num(p), Num(b), Undef) : p \in PulseVals, b \in BreathingVals}
ValidTraces == {Obj("breathing_trace", Undef, Undef, Num(v)) : v \in {0, 1}}
\* Well-formed JSON with a known type and a missing or wrongly typed field.
MalformedFields ==
    { Obj("vitals", Undef, Num(BreathingThreshold + 1), Undef),
      Obj("vitals", Undef, Undef, Undef),
      Obj("vitals", NumStr(PulseThreshold + 50), Num(BreathingThreshold + 1), Undef),
      Obj("vitals", NanStr, Num(BreathingThreshold + 1), Undef),
      Obj("breathing_trace", Undef, Undef, Undef) }
\* Not JSON, or JSON whose type is neither "vitals" nor "breathing_trace".
Undecodable ==
    { Truncated, JsonNull,
      Obj("ping", Undef, Undef, Undef),
      Obj("", Num(PulseThreshold + 1), Num(BreathingThreshold + 1), Undef) }
Payloads == ValidVitals \cup ValidTraces \cup MalformedFields \cup Undecodable

\* --------------------------------------------------------------- callbacks
Call(cb, data, flag, val) == [cb |-> cb, data |-> data, flag |-> flag, val |-> val]
VitalsCall(data) == Call("vitals", data, FALSE, Undef)
DistressCall(flag) == Call("distress", NoPayload, flag, Undef)
TraceCall(val) == Call("trace", NoPayload, FALSE, val)
ConnectedCall == Call("connected", NoPayload, FALSE, Undef)
DisconnectedCall == Call("disconnected", NoPayload, FALSE, Undef)

CountCalls(cb) == Cardinality({i \in 1..Len(calls) : calls[i].cb = cb})

\* ------------------------------------------------------------ history
Snapshot == [ws |-> ws, reconnectTimer |-> reconnectTimer, sockets |-> sockets, timers |-> timers]
Step(kind, s, payload) == [kind |-> kind, sock |-> s, payload |-> payload, pre |-> Snapshot]

\* ------------------------------------------------------ SmartSpectraClient
\* isConnected(): this.ws?.readyState === WebSocket.OPEN
IsConnected_HasHandle == ws # NoSock
IsConnected == ws # NoSock /\ sockets[ws].state = "OPEN"

\* connect()'s early return: this.ws?.readyState === WebSocket.OPEN
AlreadyConnected_Never == FALSE
AlreadyConnected == ws # NoSock /\ sockets[ws].state = "OPEN"

\* The truthiness tests of this.reconnectTimer in onopen, onclose and disconnect().
OnOpenTimerHeld_Never == FALSE
OnOpenTimerHeld == reconnectTimer # NoTimer
OnCloseTimerHeld_Never == FALSE
OnCloseTimerHeld == reconnectTimer # NoTimer
DisconnectTimerHeld == reconnectTimer # NoTimer
\* disconnect(): if (this.ws)
DisconnectSocketHeld_Unchecked == TRUE
DisconnectSocketHeld == ws # NoSock
\* onerror's body: console.error only, no callback of the consumer.
OnErrorCalls_Disconnected == <<DisconnectedCall>>
OnErrorCalls == <<>>

ArmedIds == {t.id : t \in timers}
\* clearTimeout(id): disarms the timeout if it is still armed, else does nothing.
ClearTimeout(id) == {t \in timers : t.id # id}
\* setTimeout's fresh id: never one that is armed or still held by the client.
FreshTimerIds == {i \in TimerIds : i \notin ArmedIds /\ i # reconnectTimer}
FreshTimer == CHOOSE i \in FreshTimerIds : \A j \in FreshTimerIds : i <= j

FreeSlots == {s \in SocketIds : sockets[s].state = "FREE"}
FreshSocket == CHOOSE s \in FreeSlots : \A r \in FreeSlots : s <= r

\* JavaScript's field > n: false when Number(field) is NaN.
JsGreater(f, n) == f.t \in {"num", "numstr"} /\ f.v > n

\* const isDistressed = data.pulse > 100 && data.breathing > 20
ClientIsDistressed_Geq(data) ==
    JsGreater(data.pulse, PulseThreshold - 1) /\ JsGreater(data.breathing, BreathingThreshold)
ClientIsDistressed(data) ==
    JsGreater(data.pulse, PulseThreshold) /\ JsGreater(data.breathing, BreathingThreshold)

\* The body of onmessage's try block: JSON.parse throws on text that is not
\* JSON; reading .type of null throws; otherwise dispatch on data.type.
TryDispatch_ElseTrace(payload) ==
    IF payload.form # "object"
    THEN [calls |-> <<>>, thrown |-> TRUE]
    ELSE IF payload.type = "vitals"
         THEN [calls |-> <<VitalsCall(payload), DistressCall(ClientIsDistressed(payload))>>,
               thrown |-> FALSE]
         ELSE [calls |-> <<TraceCall(payload.value)>>, thrown |-> FALSE]
TryDispatch_DistressFirst(payload) ==
    IF payload.form # "object"
    THEN [calls |-> <<>>, thrown |-> TRUE]
    ELSE IF payload.type = "vitals"
         THEN [calls |-> <<DistressCall(ClientIsDistressed(payload)), VitalsCall(payload)>>,
               thrown |-> FALSE]
         ELSE IF payload.type = "breathing_trace"
              THEN [calls |-> <<TraceCall(payload.value), TraceCall(payload.value)>>,
                    thrown |-> FALSE]
              ELSE [calls |-> <<>>, thrown |-> FALSE]
TryDispatch(payload) ==
    IF payload.form # "object"
    THEN [calls |-> <<>>, thrown |-> TRUE]
    ELSE IF payload.type = "vitals"
         THEN [calls |-> <<VitalsCall(payload), DistressCall(ClientIsDistressed(payload))>>,
               thrown |-> FALSE]
         ELSE IF payload.type = "breathing_trace"
              THEN [calls |-> <<TraceCall(payload.value)>>, thrown |-> FALSE]
              ELSE [calls |-> <<>>, thrown |-> FALSE]

\* onmessage's catch (error) { console.error(...) }: what still propagates.
MessageCatch(thrown) == FALSE

\* connect(): lines 33-88, the assignments to this.ws.
ConnectBody ==
    IF AlreadyConnected
    THEN /\ ws' = ws
         /\ sockets' = sockets
    ELSE /\ FreeSlots # {}
         /\ ws' = FreshSocket
         /\ sockets' = [sockets EXCEPT ![FreshSocket] = NewSocket]

\* The consumer calls connect().
Connect ==
    /\ impl = "real"
    /\ consumerConnected' = consumerConnected
    /\ UNCHANGED outsideClient
    /\ ConnectBody
    /\ UNCHANGED <<reconnectTimer, timers>>
    /\ calls' = <<>>
    /\ uncaught' = FALSE
    /\ last' = Step("connect", NoSock, NoPayload)
    /\ userDisconnected' = FALSE

\* The reconnect timeout fires: its callback calls this.connect() and leaves
\* this.reconnectTimer as it is.
TimerFire(t) ==
    /\ impl = "real"
    /\ consumerConnected' = consumerConnected
    /\ UNCHANGED outsideClient
    /\ t \in timers
    /\ timers' = timers \ {t}
    /\ ConnectBody
    /\ UNCHANGED <<reconnectTimer, userDisconnected>>
    /\ calls' = <<>>
    /\ uncaught' = FALSE
    /\ last' = Step("timer", NoSock, NoPayload)

\* ws.onopen of socket s.
OnOpen(s) ==
    /\ impl = "real"
    /\ consumerConnected' = TRUE
    /\ UNCHANGED outsideClient
    /\ sockets[s].state = "CONNECTING"
    /\ sockets' = [sockets EXCEPT ![s].state = "OPEN"]
    /\ calls' = <<ConnectedCall>>
    /\ IF OnOpenTimerHeld
       THEN /\ timers' = ClearTimeout(reconnectTimer)
            /\ reconnectTimer' = NoTimer
       ELSE UNCHANGED <<timers, reconnectTimer>>
    /\ UNCHANGED <<ws, userDisconnected>>
    /\ uncaught' = FALSE
    /\ last' = Step("open", s, NoPayload)

\* ws.onmessage of socket s with event.data = payload.
OnMessage(s, payload) ==
    /\ impl = "real"
    /\ consumerConnected' = consumerConnected
    /\ UNCHANGED outsideClient
    /\ sockets[s].state = "OPEN"
    /\ LET r == TryDispatch(payload)
       IN /\ calls' = r.calls
          /\ uncaught' = MessageCatch(r.thrown)
    /\ sockets' = [sockets EXCEPT ![s].gotBad = @ \/ payload \in Undecodable]
    /\ UNCHANGED <<ws, reconnectTimer, timers, userDisconnected>>
    /\ last' = Step("message", s, payload)

\* ws.onerror of socket s: the browser fires it when the connection fails,
\* with the close event still to come.
OnError(s) ==
    /\ impl = "real"
    /\ consumerConnected' = consumerConnected
    /\ UNCHANGED outsideClient
    /\ sockets[s].state \in {"CONNECTING", "OPEN", "CLOSING"}
    /\ sockets' = [sockets EXCEPT ![s].state = "CLOSED"]
    /\ UNCHANGED <<ws, reconnectTimer, timers, userDisconnected>>
    /\ calls' = OnErrorCalls
    /\ uncaught' = FALSE
    /\ last' = Step("error", s, NoPayload)

\* ws.onclose of socket s.
OnClose(s) ==
    /\ impl = "real"
    /\ consumerConnected' = FALSE
    /\ UNCHANGED outsideClient
    /\ sockets[s].state \in {"CONNECTING", "OPEN", "CLOSING", "CLOSED"}
    /\ sockets' = [sockets EXCEPT ![s] = FreeSocket]
    /\ calls' = <<DisconnectedCall>>
    /\ ws' = NoSock
    /\ IF ~OnCloseTimerHeld
       THEN /\ FreshTimerIds # {}
            /\ reconnectTimer' = FreshTimer
            /\ timers' = timers \cup {[id |-> FreshTimer, delay |-> ReconnectDelayMs]}
       ELSE UNCHANGED <<reconnectTimer, timers>>
    /\ UNCHANGED userDisconnected
    /\ uncaught' = FALSE
    /\ last' = Step("close", s, NoPayload)

\* The consumer calls disconnect().
Disconnect ==
    /\ impl = "real"
    /\ consumerConnected' = FALSE
    /\ UNCHANGED outsideClient
    /\ IF DisconnectTimerHeld
       THEN /\ timers' = ClearTimeout(reconnectTimer)
            /\ reconnectTimer' = NoTimer
       ELSE UNCHANGED <<timers, reconnectTimer>>
    /\ IF DisconnectSocketHeld
       THEN IF ws # NoSock
            THEN /\ sockets' = [sockets EXCEPT ![ws] =
                     [@ EXCEPT !.state = IF @ \in {"CONNECTING", "OPEN"} THEN "CLOSING" ELSE @,
                               !.userClosed = TRUE]]
                 /\ uncaught' = FALSE
            ELSE /\ sockets' = sockets      \* null.close(): TypeError
                 /\ uncaught' = TRUE
       ELSE /\ sockets' = sockets
            /\ uncaught' = FALSE
    /\ ws' = NoSock
    /\ calls' = <<>>
    /\ last' = Step("disconnect", NoSock, NoPayload)
    /\ userDisconnected' = TRUE

\* ------------------------------------------------ SmartSpectraWebSocketServer
SessionIds == 1..MaxSessions
\* The threads the producer runs its two output callbacks on.
Threads == {"core", "edge"}

\* Floats are counted in units of 1e-7; std::to_string prints them with six
\* decimals ("%f"), rounding to units of 1e-6.
ToStringFloat(x) == IF x >= 0 THEN (x + 5) \div 10 ELSE -((5 - x) \div 10)
\* static_cast<int> of a non-negative float given in tenths.
StaticCastInt(x10) == x10 \div 10

Rate(v, c) == [value |-> v, confidence |-> c]
ScenarioPulseRates == <<Rate(68, 9000000), Rate(102, 9500000)>>
ScenarioBreathingRates == <<Rate(14, 8000000), Rate(22, 8500000)>>
MetricsBuffer(ps, pr, bs, br) ==
    [pulseStrict |-> ps, pulseRate |-> pr, breathingStrict |-> bs, breathingRate |-> br]
\* The MetricsBuffers the producer hands to the core-metrics callback.
Buffers ==
    { MetricsBuffer(1020, ScenarioPulseRates, 220, ScenarioBreathingRates),
      MetricsBuffer(705, ScenarioPulseRates, 159, ScenarioBreathingRates),
      MetricsBuffer(1020, <<>>, 220, ScenarioBreathingRates),
      MetricsBuffer(705, <<>>, 159, <<>>) }
Timestamps == {1000000}
\* breathing().upper_trace() of the Metrics handed to the edge-metrics callback.
UpperTraces == { <<>>, <<1234567>>, <<1234567, -5000004>> }

NoMessage ==
    [type |-> "none", timestamp |-> 0, pulse |-> 0, pulseConfidence |-> 0,
     breathing |-> 0, breathingConfidence |-> 0, value |-> 0]

\* A MetricsBuffer with nothing in it.
NoBuffer == MetricsBuffer(0, <<>>, 0, <<>>)

\* float confidence = 0.0f; if (rate_size() > 0) confidence =
\* rate(rate_size() - 1).confidence();
LastConfidence(rate) == IF Len(rate) > 0 THEN rate[Len(rate)].confidence ELSE 0

\* HandleMetrics: the JSON text it builds, field by field.
VitalsJson_Coupled(metrics, timestamp) ==
    LET both == Len(metrics.pulseRate) > 0 /\ Len(metrics.breathingRate) > 0
    IN [type |-> "vitals", timestamp |-> timestamp,
        pulse |-> StaticCastInt(metrics.pulseStrict),
        pulseConfidence |->
            IF both THEN ToStringFloat(LastConfidence(metrics.pulseRate)) ELSE 0,
        breathing |-> StaticCastInt(metrics.breathingStrict),
        breathingConfidence |->
            IF both THEN ToStringFloat(LastConfidence(metrics.breathingRate)) ELSE 0,
        value |-> 0]
VitalsJson(metrics, timestamp) ==
    LET pulse_rate == StaticCastInt(metrics.pulseStrict)
        breathing_rate == StaticCastInt(metrics.breathingStrict)
        pulse_confidence == LastConfidence(metrics.pulseRate)
        breathing_confidence == LastConfidence(metrics.breathingRate)
    IN [type |-> "vitals", timestamp |-> timestamp,
        pulse |-> pulse_rate, pulseConfidence |-> ToStringFloat(pulse_confidence),
        breathing |-> breathing_rate,
        breathingConfidence |-> ToStringFloat(breathing_confidence),
        value |-> 0]

\* HandleEdgeMetrics: the JSON text for a non-empty upper trace.
TraceJson_First(upper_trace) ==
    [NoMessage EXCEPT !.type = "breathing_trace", !.value = ToStringFloat(upper_trace[1])]
TraceJson(upper_trace) ==
    [NoMessage EXCEPT !.type = "breathing_trace",
                      !.value = ToStringFloat(upper_trace[Len(upper_trace)])]

RECURSIVE Ascending(_)
\* The iteration order of std::set<connection_hdl, owner_less>.
Ascending(S) ==
    IF S = {} THEN <<>>
    ELSE LET m == CHOOSE x \in S : \A y \in S : x <= y
         IN <<m>> \o Ascending(S \ {m})

IdleBroadcast ==
    [pc |-> "idle", msg |-> NoMessage, todo |-> <<>>, start |-> {}, attempted |-> {},
     sent |-> {}, failed |-> {}, endSet |-> {}, status |-> "none",
     dup |-> FALSE, startedAfter |-> {}, outOfOrder |-> FALSE, input |-> NoBuffer,
     trace |-> <<>>]

\* ws_server_.send(hdl, ...) throws for a connection that is no longer open.
SendThrows(h) == conn[h] # "open"

\* Broadcast's loop body when send returned: the message went out to h.
AfterSendOk(b, h) ==
    [b EXCEPT !.todo = Tail(@), !.attempted = @ \cup {h}, !.sent = @ \cup {h},
              !.dup = @ \/ h \in b.attempted]

\* Broadcast's loop body when send threw: catch (const std::exception&), log
\* a warning, go on with the next handle.
AfterSendThrow_Abort(b, h) ==
    [b EXCEPT !.todo = <<>>, !.attempted = @ \cup {h}, !.failed = @ \cup {h}]
AfterSendThrow_Retry(b, h) ==
    [b EXCEPT !.attempted = @ \cup {h}, !.failed = @ \cup {h},
              !.dup = @ \/ h \in b.attempted]
AfterSendThrow(b, h) ==
    [b EXCEPT !.todo = Tail(@), !.attempted = @ \cup {h}, !.failed = @ \cup {h},
              !.dup = @ \/ h \in b.attempted]

\* What the catch block does to connections_: nothing, it only logs.
SessionsAfterSendThrow_Erase(S, h) == S \ {h}
SessionsAfterSendThrow(S, h) == S

\* std::lock_guard<std::mutex> lock(connections_mutex_) in Broadcast: the
\* mutex's owner from the constructor's return to the end of the function.
\* The lock_guard's constructor returns once no thread owns the mutex.
MutexAvailable_Always == TRUE
MutexAvailable == connections_mutex_ = "none"
BroadcastGuard_None(th) == "none"
BroadcastGuard(th) == th

\* The callbacks' return value after Broadcast: absl::OkStatus(), always.
StatusAfterBroadcast_FailOnThrow(b) == IF b.failed = {} THEN "OK" ELSE "ERROR"
StatusAfterBroadcast(b) == "OK"

\* The broadcasts that took the lock before th's and have h still to send to:
\* a send to h by th now would reach h ahead of an earlier message.
Overtakes(th, h) ==
    \E o \in bc[th].startedAfter :
        bc[o].pc = "send" /\ \E i \in 1..Len(bc[o].todo) : bc[o].todo[i] = h

\* A client completes the WebSocket handshake: its open handler is due.
ClientArrives(h) ==
    /\ UNCHANGED outsideServer
    /\ conn[h] = "absent"
    /\ conn' = [conn EXCEPT ![h] = "handshaken"]
    /\ UNCHANGED <<connections_, connections_mutex_, acceptPc, bc>>

\* A registered client's transport goes away: its close handler is due.
ClientDrops(h) ==
    /\ UNCHANGED outsideServer
    /\ conn[h] = "open"
    /\ conn' = [conn EXCEPT ![h] = "dropped"]
    /\ UNCHANGED <<connections_, connections_mutex_, acceptPc, bc>>

\* The accept thread enters the open or close handler of h: lock_guard.
HandlerLock(h) ==
    /\ UNCHANGED outsideServer
    /\ acceptPc.kind = "idle"
    /\ conn[h] \in {"handshaken", "dropped"}
    /\ connections_mutex_ = "none"
    /\ connections_mutex_' = "accept"
    /\ acceptPc' = [kind |-> IF conn[h] = "handshaken" THEN "open" ELSE "close", hdl |-> h]
    /\ UNCHANGED <<connections_, conn, bc>>

\* set_open_handler's body: connections_.insert(hdl), then the lock goes.
OpenHandler ==
    /\ UNCHANGED outsideServer
    /\ acceptPc.kind = "open"
    /\ connections_' = connections_ \cup {acceptPc.hdl}
    /\ conn' = [conn EXCEPT ![acceptPc.hdl] = "open"]
    /\ connections_mutex_' = "none"
    /\ acceptPc' = [kind |-> "idle", hdl |-> 0]
    /\ UNCHANGED bc

\* set_close_handler's body: connections_.erase(hdl), then the lock goes.
CloseHandler ==
    /\ UNCHANGED outsideServer
    /\ acceptPc.kind = "close"
    /\ connections_' = connections_ \ {acceptPc.hdl}
    /\ conn' = [conn EXCEPT ![acceptPc.hdl] = "absent"]
    /\ connections_mutex_' = "none"
    /\ acceptPc' = [kind |-> "idle", hdl |-> 0]
    /\ UNCHANGED bc

\* HandleMetrics up to its call of Broadcast(json_msg).
HandleMetrics(metrics, timestamp) ==
    /\ UNCHANGED outsideServer
    /\ bc["core"].pc = "idle"
    /\ bc' = [bc EXCEPT !["core"] =
                 [IdleBroadcast EXCEPT !.pc = "lock", !.msg = VitalsJson(metrics, timestamp),
                                       !.input = metrics]]
    /\ UNCHANGED <<connections_, connections_mutex_, conn, acceptPc>>

\* HandleEdgeMetrics: returns OkStatus at once for an empty trace, else up to
\* its call of Broadcast(json_msg).
HandleEdgeMetrics(upper_trace) ==
    /\ UNCHANGED outsideServer
    /\ bc["edge"].pc = "idle"
    /\ bc' = [bc EXCEPT !["edge"] =
                 IF upper_trace # <<>>
                 THEN [IdleBroadcast EXCEPT !.pc = "lock", !.msg = TraceJson(upper_trace),
                                            !.trace = upper_trace]
                 ELSE [IdleBroadcast EXCEPT !.status = "OK"]]
    /\ UNCHANGED <<connections_, connections_mutex_, conn, acceptPc>>

\* Broadcast: std::lock_guard<std::mutex> lock(connections_mutex_), and the
\* range-for starts over connections_.
BroadcastLock(th) ==
    /\ UNCHANGED outsideServer
    /\ bc[th].pc = "lock"
    /\ MutexAvailable
    /\ connections_mutex_' = BroadcastGuard(th)
    /\ bc' = [bc EXCEPT ![th] =
                 [@ EXCEPT !.pc = "send", !.todo = Ascending(connections_),
                           !.start = connections_,
                           !.startedAfter = {o \in Threads \ {th} : bc[o].pc = "send"}]]
    /\ UNCHANGED <<connections_, conn, acceptPc>>

\* Broadcast: one iteration of the loop, try { send } catch { log }.
BroadcastSend(th) ==
    /\ UNCHANGED outsideServer
    /\ bc[th].pc = "send"
    /\ bc[th].todo # <<>>
    /\ LET h == Head(bc[th].todo)
       IN /\ bc' = [bc EXCEPT ![th] =
                       [(IF SendThrows(h) THEN AfterSendThrow(@, h) ELSE AfterSendOk(@, h))
                           EXCEPT !.outOfOrder = @ \/ Overtakes(th, h)]]
          /\ connections_' = IF SendThrows(h)
                              THEN SessionsAfterSendThrow(connections_, h)
                              ELSE connections_
    /\ UNCHANGED <<connections_mutex_, conn, acceptPc>>

\* Broadcast returns (the lock_guard releases) and the callback returns
\* absl::OkStatus().
BroadcastReturn(th) ==
    /\ UNCHANGED outsideServer
    /\ bc[th].pc = "send"
    /\ bc[th].todo = <<>>
    /\ connections_mutex_' = IF connections_mutex_ = th THEN "none" ELSE connections_mutex_
    /\ bc' = [o \in Threads |->
                 IF o = th
                 THEN [bc[o] EXCEPT !.pc = "idle", !.endSet = connections_,
                                    !.status = StatusAfterBroadcast(bc[o])]
                 ELSE [bc[o] EXCEPT !.startedAfter = @ \ {th}]]
    /\ UNCHANGED <<connections_, conn, acceptPc>>

ServerInit ==
    /\ connections_ = {}
    /\ connections_mutex_ = "none"
    /\ conn = [h \in SessionIds |-> "absent"]
    /\ acceptPc = [kind |-> "idle", hdl |-> 0]
    /\ bc = [th \in Threads |-> IdleBroadcast]

ServerNext ==
    \/ \E h \in SessionIds : ClientArrives(h)
    \/ \E h \in SessionIds : ClientDrops(h)
    \/ \E h \in SessionIds : HandlerLock(h)
    \/ OpenHandler
    \/ CloseHandler
    \/ \E metrics \in Buffers, timestamp \in Timestamps : HandleMetrics(metrics, timestamp)
    \/ \E upper_trace \in UpperTraces : HandleEdgeMetrics(upper_trace)
    \/ \E th \in Threads : BroadcastLock(th)
    \/ \E th \in Threads : BroadcastSend(th)
    \/ \E th \in Threads : BroadcastReturn(th)

\* --------------------------------------------------- MockSmartSpectraClient
MockBasePulse == 72
MockBaseBreathing == 15
MockPulseMin == 50
MockPulseMax == 120
MockBreathingMin == 10
MockBreathingMax == 25
MockPulseThreshold == 100
MockBreathingThreshold == 20
MockConnectDelayMs == 500
MockVitalsPeriodMs == 2000
MockTracePeriodMs == 33

IntervalIds == 1..MaxIntervals
NoInterval == 0

Max2(a, b) == IF a >= b THEN a ELSE b
Min2(a, b) == IF a <= b THEN a ELSE b
\* Math.round of a value given in halves: halves round up.
MathRoundHalves(x2) == (x2 + 1) \div 2

\* (Math.random() - 0.5) * 10, in halves: [-5, 5).
PulseVariations == {-10, 0, 9}
\* (Math.random() - 0.5) * 4, in halves: [-2, 2).
BreathingVariations == {-4, 1, 3}
\* Math.sin(this.time / 30) * 5: [-5, 5].
Drifts == {-5, 0, 5}
\* Math.sin(...) of generateBreathingTrace: [-1, 1].
TraceValues == {-1, 0, 1}

\* generateVitals: pulse and breathing from the random draws.
MockPulse(pv, drift) ==
    MathRoundHalves(Max2(2 * MockPulseMin,
                         Min2(2 * MockPulseMax, 2 * MockBasePulse + pv + 2 * drift)))
MockBreathing(bv, drift) ==
    MathRoundHalves(Max2(2 * MockBreathingMin,
                         Min2(2 * MockBreathingMax, 2 * MockBaseBreathing + bv + drift)))

\* const isDistressed = pulse > 100 && breathing > 20
MockIsDistressed(pulse, breathing) ==
    pulse > MockPulseThreshold /\ breathing > MockBreathingThreshold

MockVitals(pv, bv, drift) ==
    Obj("vitals", Num(MockPulse(pv, drift)), Num(MockBreathing(bv, drift)), Undef)

\* generateVitals: the callbacks it invokes, in order.
GenerateVitalsCalls(pv, bv, drift) ==
    << VitalsCall(MockVitals(pv, bv, drift)),
       DistressCall(MockIsDistressed(MockPulse(pv, drift), MockBreathing(bv, drift))) >>

ArmedIntervalIds == {i.id : i \in mockIntervals}
\* setInterval's fresh ids: never one that is armed or still held by the mock.
FreshIntervalIds ==
    {i \in IntervalIds : i \notin ArmedIntervalIds /\ i # mock.intervalId /\ i # mock.traceIntervalId}
ClearInterval(S, id) == {i \in S : i.id # id}

\* The consumer calls connect(): a 500 ms timeout is armed, its id dropped.
MockConnect ==
    /\ impl = "mock"
    /\ UNCHANGED outsideMock
    /\ mockTimeouts < MaxMockTimeouts
    /\ mockTimeouts' = mockTimeouts + 1
    /\ mock' = [mock EXCEPT !.userDisconnected = FALSE]
    /\ UNCHANGED mockIntervals
    /\ calls' = <<>>
    /\ uncaught' = FALSE
    /\ last' = Step("mockConnect", NoSock, NoPayload)

\* connect()'s timeout callback: connected, two intervals, first vitals.
MockConnected(pv, bv, drift) ==
    /\ impl = "mock"
    /\ UNCHANGED outsideMock
    /\ mockTimeouts > 0
    /\ mock.time < MaxMockTime
    /\ \E i1, i2 \in FreshIntervalIds :
          /\ i1 < i2
          /\ \A j \in FreshIntervalIds : i1 <= j /\ (j # i1 => i2 <= j)
          /\ mock' = [connected |-> TRUE, intervalId |-> i1, traceIntervalId |-> i2,
                      time |-> mock.time + 1, userDisconnected |-> mock.userDisconnected]
          /\ mockIntervals' = mockIntervals \cup
                 { [id |-> i1, kind |-> "vitals", period |-> MockVitalsPeriodMs],
                   [id |-> i2, kind |-> "trace", period |-> MockTracePeriodMs] }
    /\ mockTimeouts' = mockTimeouts - 1
    /\ calls' = <<ConnectedCall>> \o GenerateVitalsCalls(pv, bv, drift)
    /\ uncaught' = FALSE
    /\ last' = Step("mockConnected", NoSock, MockVitals(pv, bv, drift))

\* The 2000 ms interval fires: generateVitals().
MockVitalsTick(i, pv, bv, drift) ==
    /\ impl = "mock"
    /\ UNCHANGED outsideMock
    /\ i \in mockIntervals
    /\ i.kind = "vitals"
    /\ mock.time < MaxMockTime
    /\ mock' = [mock EXCEPT !.time = @ + 1]
    /\ UNCHANGED <<mockTimeouts, mockIntervals>>
    /\ calls' = GenerateVitalsCalls(pv, bv, drift)
    /\ uncaught' = FALSE
    /\ last' = Step("mockVitals", NoSock, MockVitals(pv, bv, drift))

\* The 33 ms interval fires: generateBreathingTrace().
MockTraceTick(i, value) ==
    /\ impl = "mock"
    /\ UNCHANGED outsideMock
    /\ i \in mockIntervals
    /\ i.kind = "trace"
    /\ UNCHANGED mockVars
    /\ calls' = <<TraceCall(Num(value))>>
    /\ uncaught' = FALSE
    /\ last' = Step("mockTrace", NoSock, Obj("breathing_trace", Undef, Undef, Num(value)))

\* The consumer calls disconnect().
MockDisconnect ==
    /\ impl = "mock"
    /\ UNCHANGED outsideMock
    /\ mockIntervals' = ClearInterval(ClearInterval(mockIntervals, mock.intervalId),
                                      mock.traceIntervalId)
    /\ mock' = [mock EXCEPT !.connected = FALSE, !.intervalId = NoInterval,
                            !.traceIntervalId = NoInterval, !.userDisconnected = TRUE]
    /\ UNCHANGED mockTimeouts
    /\ calls' = <<DisconnectedCall>>
    /\ uncaught' = FALSE
    /\ last' = Step("mockDisconnect", NoSock, NoPayload)

MockInit ==
    /\ mock = [connected |-> FALSE, intervalId |-> NoInterval,
               traceIntervalId |-> NoInterval, time |-> 0,
               userDisconnected |-> FALSE]
    /\ mockTimeouts = 0
    /\ mockIntervals = {}

MockNext ==
    \/ MockConnect
    \/ MockDisconnect
    \/ \E pv \in PulseVariations, bv \in BreathingVariations, drift \in Drifts :
          MockConnected(pv, bv, drift)
    \/ \E i \in mockIntervals, pv \in PulseVariations, bv \in BreathingVariations,
          drift \in Drifts : MockVitalsTick(i, pv, bv, drift)
    \/ \E i \in mockIntervals, value \in TraceValues : MockTraceTick(i, value)

\* --------------------------------------------- the helper's main and Start
EXIT_SUCCESS == 0
EXIT_FAILURE == 1
\* An exception that leaves a std::thread's function ends in std::terminate:
\* the process is killed by SIGABRT, which a shell reports as 128 + 6.
AbortStatus == 134

ArgCounts == 1..MaxArgc
\* The answers of SetOnCoreMetricsOutput, SetOnEdgeMetricsOutput, Initialize
\* and Run (status.ok()), and whether port 8765 can be bound.
Answers ==
    [coreOk : BOOLEAN, edgeOk : BOOLEAN, initOk : BOOLEAN, runOk : BOOLEAN, bindOk : BOOLEAN]
AllOk ==
    [coreOk |-> TRUE, edgeOk |-> TRUE, initOk |-> TRUE, runOk |-> TRUE, bindOk |-> TRUE]

Running == proc.state = "running"

\* if (argc < 2)
MissingApiKey == argc < 2
\* if (!status.ok()) after SetOnCoreMetricsOutput
CoreRejected == ~producer.coreOk
\* if (!status.ok()) after SetOnEdgeMetricsOutput
EdgeRejected_Ignored == FALSE
EdgeRejected == ~producer.edgeOk
\* if (!status.ok()) after Initialize
InitializeFailed == ~producer.initOk
\* main's exit code after server.Stop()
MainReturnCode == EXIT_SUCCESS

\* main up to the construction of the server: the usage check.
MainCheckArgs ==
    /\ UNCHANGED outsideMain
    /\ Running /\ mainPc = "main"
    /\ IF MissingApiKey
       THEN /\ proc' = [state |-> "exited", code |-> EXIT_FAILURE]
            /\ mainPc' = "done"
       ELSE /\ proc' = proc
            /\ mainPc' = "setCore"
    /\ UNCHANGED <<argc, producer, ws_thread_, stopped, runEntered, stops, joinError>>

\* Start: SetOnCoreMetricsOutput and its status check.
StartSetCore ==
    /\ UNCHANGED outsideMain
    /\ Running /\ mainPc = "setCore"
    /\ mainPc' = IF CoreRejected THEN "stop" ELSE "setEdge"
    /\ UNCHANGED <<argc, producer, ws_thread_, stopped, proc, runEntered, stops, joinError>>

\* Start: SetOnEdgeMetricsOutput and its status check.
StartSetEdge ==
    /\ UNCHANGED outsideMain
    /\ Running /\ mainPc = "setEdge"
    /\ mainPc' = IF EdgeRejected THEN "stop" ELSE "initialize"
    /\ UNCHANGED <<argc, producer, ws_thread_, stopped, proc, runEntered, stops, joinError>>

\* Start: container_->Initialize() and its status check.
StartInitialize ==
    /\ UNCHANGED outsideMain
    /\ Running /\ mainPc = "initialize"
    /\ mainPc' = IF InitializeFailed THEN "stop" ELSE "spawn"
    /\ UNCHANGED <<argc, producer, ws_thread_, stopped, proc, runEntered, stops, joinError>>

\* Start: ws_thread_ = std::thread(...); the main thread goes straight on.
StartThread ==
    /\ UNCHANGED outsideMain
    /\ Running /\ mainPc = "spawn"
    /\ ws_thread_' = "spawned"
    /\ mainPc' = "run"
    /\ UNCHANGED <<argc, producer, stopped, proc, runEntered, stops, joinError>>

\* Start: container_->Run() is called (it blocks while the producer works).
StartRun ==
    /\ UNCHANGED outsideMain
    /\ Running /\ mainPc = "run"
    /\ runEntered' = TRUE
    /\ mainPc' = "running"
    /\ UNCHANGED <<argc, producer, ws_thread_, stopped, proc, stops, joinError>>

\* Run() returns, OK or not (an error is logged), and Start returns.
RunReturns ==
    /\ UNCHANGED outsideMain
    /\ Running /\ mainPc = "running"
    /\ mainPc' = "stop"
    /\ UNCHANGED <<argc, producer, ws_thread_, stopped, proc, runEntered, stops, joinError>>

\* ws_server_.stop(): the io_service is stopped from then on.
StoppedAfterStop_Lost == stopped
StoppedAfterStop == TRUE

\* Stop: ws_server_.stop().
StopServer ==
    /\ UNCHANGED outsideMain
    /\ Running /\ mainPc = "stop"
    /\ stopped' = StoppedAfterStop
    /\ stops' = stops + 1
    /\ mainPc' = "join"
    /\ UNCHANGED <<argc, producer, ws_thread_, proc, runEntered, joinError>>

\* std::thread::joinable(): the object owns a thread, running or finished,
\* that was not joined yet.
ThreadJoinable == ws_thread_ \notin {"none", "joined"}
\* Stop's condition: if (ws_thread_.joinable())
Joinable_Unchecked == TRUE
Joinable == ThreadJoinable
\* ws_thread_.join() blocks until the thread's function has returned.
JoinWaits_Never == FALSE
JoinWaits == ws_thread_ # "returned"

\* Stop: if (ws_thread_.joinable()) ws_thread_.join(). join() on a thread
\* that is not joinable throws std::system_error.
StopJoin ==
    /\ UNCHANGED outsideMain
    /\ Running /\ mainPc = "join"
    /\ IF ~Joinable
       THEN UNCHANGED <<ws_thread_, joinError>>
       ELSE IF ~ThreadJoinable
            THEN joinError' = TRUE /\ ws_thread_' = ws_thread_
            ELSE /\ ~JoinWaits
                 /\ ws_thread_' = IF ws_thread_ = "returned" THEN "joined" ELSE ws_thread_
                 /\ joinError' = joinError
    /\ mainPc' = "return"
    /\ UNCHANGED <<argc, producer, stopped, proc, runEntered, stops>>

\* The owner of the server object calls Stop() once more.
StopAgain ==
    /\ UNCHANGED outsideMain
    /\ Running /\ mainPc = "return"
    /\ stops < MaxStops
    /\ mainPc' = "stop"
    /\ UNCHANGED <<argc, producer, ws_thread_, stopped, proc, runEntered, stops, joinError>>

\* main: return EXIT_SUCCESS.
MainReturn ==
    /\ UNCHANGED outsideMain
    /\ Running /\ mainPc = "return"
    /\ proc' = [state |-> "exited", code |-> MainReturnCode]
    /\ mainPc' = "done"
    /\ UNCHANGED <<argc, producer, ws_thread_, stopped, runEntered, stops, joinError>>

\* The background thread: ws_server_.listen(8765). It throws when the port
\* cannot be bound; nothing in the thread's function catches.
WsListen ==
    /\ UNCHANGED outsideMain
    /\ Running /\ ws_thread_ = "spawned"
    /\ IF producer.bindOk
       THEN /\ ws_thread_' = "listening"
            /\ proc' = proc
       ELSE /\ ws_thread_' = "threw"
            /\ proc' = [state |-> "aborted", code |-> AbortStatus]
    /\ UNCHANGED <<argc, producer, mainPc, stopped, runEntered, stops, joinError>>

\* The background thread: ws_server_.start_accept().
WsStartAccept ==
    /\ UNCHANGED outsideMain
    /\ Running /\ ws_thread_ = "listening"
    /\ ws_thread_' = "accepting"
    /\ UNCHANGED <<argc, producer, mainPc, stopped, proc, runEntered, stops, joinError>>

\* The background thread: ws_server_.run(), which returns at once on a
\* stopped io_service.
WsRun ==
    /\ UNCHANGED outsideMain
    /\ Running /\ ws_thread_ = "accepting"
    /\ ws_thread_' = IF stopped THEN "returned" ELSE "serving"
    /\ UNCHANGED <<argc, producer, mainPc, stopped, proc, runEntered, stops, joinError>>

\* The background thread: run() returns once the io_service is stopped.
WsRunReturns ==
    /\ UNCHANGED outsideMain
    /\ Running /\ ws_thread_ = "serving"
    /\ stopped
    /\ ws_thread_' = "returned"
    /\ UNCHANGED <<argc, producer, mainPc, stopped, proc, runEntered, stops, joinError>>

MainInit(n, answers) ==
    /\ argc = n
    /\ producer = answers
    /\ mainPc = "main"
    /\ ws_thread_ = "none"
    /\ stopped = FALSE
    /\ proc = [state |-> "running", code |-> EXIT_SUCCESS]
    /\ runEntered = FALSE
    /\ stops = 0
    /\ joinError = FALSE

MainNext ==
    \/ MainCheckArgs
    \/ StartSetCore
    \/ StartSetEdge
    \/ StartInitialize
    \/ StartThread
    \/ StartRun
    \/ RunReturns
    \/ StopServer
    \/ StopJoin
    \/ MainReturn
    \/ WsListen
    \/ WsStartAccept
    \/ WsRun
    \/ WsRunReturns

\* ------------------------------------------- one sample across the wire
\* Confidences are counted in 1e-7, as in MetricsBuffer; the text
\* std::to_string prints has six decimals and is counted in 1e-6.
WireConfidences == {0, 1234567, 9500000, 10000000}
WirePulses == {0, 70, 102}
WireBreathings == {15, 22}
\* The values HandleMetrics extracted: int pulse_rate, breathing_rate and
\* float pulse_confidence, breathing_confidence.
WireSamples ==
    [pulse : WirePulses, pulseConfidence : WireConfidences,
     breathing : WireBreathings, breathingConfidence : WireConfidences]
NoSample == [pulse |-> 0, pulseConfidence |-> 0, breathing |-> 0, breathingConfidence |-> 0]
\* A buffer from which HandleMetrics extracts exactly the sample.
SampleBuffer(sample) ==
    MetricsBuffer(sample.pulse * 10, <<Rate(sample.pulse, sample.pulseConfidence)>>,
                  sample.breathing * 10, <<Rate(sample.breathing, sample.breathingConfidence)>>)
NoData == [type |-> "none", pulse |-> 0, pulseConfidence |-> 0, breathing |-> 0,
           breathingConfidence |-> 0]

\* JSON.parse(event.data) as SmartSpectraMessage: an integer literal is that
\* number; a literal with six decimals is that decimal number, here in 1e-7.
JsonParse(text) ==
    [type |-> text.type, pulse |-> text.pulse, pulseConfidence |-> text.pulseConfidence * 10,
     breathing |-> text.breathing, breathingConfidence |-> text.breathingConfidence * 10]

\* HandleMetrics builds the JSON text for the sample.
WireEncode ==
    /\ UNCHANGED outsideWire
    /\ wire.pc = "sample"
    /\ \E timestamp \in Timestamps :
          wire' = [wire EXCEPT !.pc = "text",
                               !.text = VitalsJson(SampleBuffer(wire.sample), timestamp)]

\* The client's onmessage parses the text.
WireDecode ==
    /\ UNCHANGED outsideWire
    /\ wire.pc = "text"
    /\ wire' = [wire EXCEPT !.pc = "data", !.data = JsonParse(wire.text)]

WireInit(sample) ==
    wire = [pc |-> "sample", sample |-> sample, text |-> NoMessage, data |-> NoData]

WireNext ==
    \/ WireEncode
    \/ WireDecode

\* ======================================================== AudioController
\* The voice loop of the consultation page: it records the user, sends the
\* recording through /api/stt, /api/chat and /api/tts, plays the answer and,
\* in continuous mode, listens again.

\* What AudioController has in flight: a promise, a timer or a media event
\* that will run one of its continuations.
PendingKinds ==
    {"permission",    \* checkMicrophonePermission's getUserMedia
     "getUserMedia",  \* AudioRecorder.startRecording's getUserMedia
     "onstop",        \* the stop event of a recorder stopped by stopListening
     "onstopForce",   \* the stop event of a recorder stopped by handleForceStop
     "stt", "chat", "tts",   \* the three fetches
     "play",          \* audio.play() called, playback not begun
     "playResolve",   \* playback begun, play()'s promise not yet resumed
     "ended",         \* an audio element playing: its ended event is to come
     "restart"}       \* the 500 ms timer armed when playback ends

NoPending == [k \in PendingKinds |-> 0]

Add(pend, k) == [pend EXCEPT ![k] = @ + 1]
Remove(pend, k) == [pend EXCEPT ![k] = @ - 1]
InFlight(pend) ==
    pend["permission"] + pend["getUserMedia"] + pend["onstop"] + pend["onstopForce"]
    + pend["stt"] + pend["chat"] + pend["tts"] + pend["play"] + pend["playResolve"]
    + pend["ended"] + pend["restart"]
HasRoom == InFlight(pending) < MaxPending

\* React runs the auto-start effect after a render in which one of its
\* dependencies [autoStart, hasPermission, isListening, isPlaying] changed.
Render(new) ==
    [new EXCEPT !.effectDue =
        \/ new.hasPermission # ac.hasPermission
        \/ new.isListening # ac.isListening
        \/ new.isPlaying # ac.isPlaying]

\* The first check of startListening, handleChatResponse and speakText.
CallEnded(a) == ~a.shouldContinueListening /\ props.continuousMode

\* startListening up to its first await, called with the refs as in a.
StartListening(a, pend) ==
    IF CallEnded(a) THEN pend
    ELSE IF ~a.hasPermission THEN Add(pend, "permission")
    ELSE Add(pend, "getUserMedia")

\* AudioRecorder.isRecording
IsRecording == recorder.mediaRecorder = "recording"

\* MediaRecorder.stop() on the recorder's current MediaRecorder.
StoppedRecorder ==
    [mediaRecorder |-> "inactive", recording |-> recorder.recording - 1]

\* pause() on the audio element currentAudioRef holds.
PauseCurrentAudio(pend) ==
    IF ac.currentAudio = "playing" THEN Remove(pend, "ended") ELSE pend
PausedAudio == IF ac.currentAudio = "none" THEN "none" ELSE "paused"

\* stopListening's last statement, after handleRecordingComplete returned.
StopListeningReturns(a) == Render([a EXCEPT !.isListening = FALSE])

\* What a step did: it started a recording, it began a playback, or neither.
AudioStep(kind) == audioHist' = [audioHist EXCEPT !.last = kind]

\* checkMicrophonePermission after its await.
PermissionResult(granted) ==
    /\ UNCHANGED outsideAudio
    /\ ~ac.effectDue
    /\ pending["permission"] > 0
    /\ pending' = Remove(pending, "permission")
    /\ ac' = Render([ac EXCEPT !.hasPermission = granted])
    /\ UNCHANGED <<props, recorder>>
    /\ AudioStep("other")

\* The effect on [autoStart, hasPermission, isListening, isPlaying].
AutoStartEffect ==
    /\ UNCHANGED outsideAudio
    /\ ac.effectDue
    /\ IF props.autoStart /\ ac.hasPermission /\ ~ac.isListening /\ ~ac.isPlaying
       THEN /\ HasRoom
            /\ ac' = [ac EXCEPT !.effectDue = FALSE, !.shouldContinueListening = TRUE]
            /\ pending' = StartListening(ac', pending)
       ELSE /\ ac' = [ac EXCEPT !.effectDue = FALSE]
            /\ UNCHANGED pending
    /\ UNCHANGED <<props, recorder>>
    /\ AudioStep("other")

\* The button of the non-continuous mode, while it shows "start".
ClickStart ==
    /\ UNCHANGED outsideAudio
    /\ ~ac.effectDue
    /\ ~props.continuousMode
    /\ ~ac.isListening /\ ~ac.isPlaying /\ ac.hasPermission
    /\ HasRoom
    /\ pending' = StartListening(ac, pending)
    /\ UNCHANGED <<props, ac, recorder>>
    /\ AudioStep("other")

\* startRecording after its getUserMedia, and startListening after its await.
GetUserMediaResolves ==
    /\ UNCHANGED outsideAudio
    /\ ~ac.effectDue
    /\ pending["getUserMedia"] > 0
    /\ recorder.recording < MaxRecordings
    /\ pending' = Remove(pending, "getUserMedia")
    /\ recorder' = [mediaRecorder |-> "recording", recording |-> recorder.recording + 1]
    /\ ac' = Render([ac EXCEPT !.isListening = TRUE,
                               !.silenceTimer = props.continuousMode \/ @])
    /\ UNCHANGED props
    /\ AudioStep("startRecording")

\* stopListening up to its first await.
StopListening ==
    IF IsRecording
    THEN /\ recorder' = StoppedRecorder
         /\ pending' = Add(pending, "onstop")
    ELSE UNCHANGED <<recorder, pending>>

\* The 8 s timer of startSilenceDetection.
SilenceTimerFires ==
    /\ UNCHANGED outsideAudio
    /\ ~ac.effectDue
    /\ ac.silenceTimer
    /\ HasRoom
    /\ ac' = [ac EXCEPT !.silenceTimer = FALSE]
    /\ StopListening
    /\ UNCHANGED props
    /\ AudioStep("other")

\* "Done Speaking", or the button of the non-continuous mode while it shows
\* "stop".
ClickStop ==
    /\ UNCHANGED outsideAudio
    /\ ~ac.effectDue
    /\ ac.isListening
    /\ props.continuousMode \/ ~ac.isPlaying
    /\ HasRoom
    /\ StopListening
    /\ UNCHANGED <<props, ac>>
    /\ AudioStep("other")

\* AudioRecorder.cleanup: it stops the tracks of this.stream and forgets
\* this.mediaRecorder, whichever recorder they belong to by now.
CleanedRecorder ==
    [mediaRecorder |-> "null",
     recording |-> IF IsRecording THEN recorder.recording - 1 ELSE recorder.recording]

\* The recorder's onstop, then handleRecordingComplete up to its fetch.
OnStop ==
    /\ UNCHANGED outsideAudio
    /\ ~ac.effectDue
    /\ pending["onstop"] > 0
    /\ recorder' = CleanedRecorder
    /\ pending' = Add(Remove(pending, "onstop"), "stt")
    /\ UNCHANGED <<props, ac>>
    /\ AudioStep("other")

\* The onstop of the recorder handleForceStop stopped: nothing waits for it.
OnStopForce ==
    /\ UNCHANGED outsideAudio
    /\ ~ac.effectDue
    /\ pending["onstopForce"] > 0
    /\ recorder' = CleanedRecorder
    /\ pending' = Remove(pending, "onstopForce")
    /\ UNCHANGED <<props, ac>>
    /\ AudioStep("other")

\* handleRecordingComplete after /api/stt, into handleChatResponse.
SttResponds(ok) ==
    /\ UNCHANGED outsideAudio
    /\ ~ac.effectDue
    /\ pending["stt"] > 0
    /\ IF ok /\ ~CallEnded(ac)
       THEN /\ ac' = [ac EXCEPT !.isProcessing = TRUE]
            /\ pending' = Add(Remove(pending, "stt"), "chat")
       ELSE /\ ac' = StopListeningReturns(ac)
            /\ pending' = Remove(pending, "stt")
    /\ UNCHANGED <<props, recorder>>
    /\ AudioStep("other")

\* handleChatResponse after /api/chat, into speakText; its catch restarts
\* listening.
ChatResponds(ok) ==
    /\ UNCHANGED outsideAudio
    /\ ~ac.effectDue
    /\ pending["chat"] > 0
    /\ IF ok /\ ~CallEnded(ac)
       THEN /\ pending' = Add(Remove(pending, "chat"), "tts")
            /\ UNCHANGED ac
       ELSE /\ pending' =
                IF ~ok /\ props.continuousMode /\ ac.shouldContinueListening
                THEN StartListening(ac, Remove(pending, "chat"))
                ELSE Remove(pending, "chat")
            /\ ac' = StopListeningReturns([ac EXCEPT !.isProcessing = FALSE])
    /\ UNCHANGED <<props, recorder>>
    /\ AudioStep("other")

\* speakText after /api/tts, up to playAudio's await.
TtsResponds(ok) ==
    /\ UNCHANGED outsideAudio
    /\ ~ac.effectDue
    /\ pending["tts"] > 0
    /\ IF ok
       THEN /\ pending' = Add(PauseCurrentAudio(Remove(pending, "tts")), "play")
            /\ ac' = [ac EXCEPT !.currentAudio = PausedAudio]
       ELSE /\ pending' = Remove(pending, "tts")
            /\ ac' = StopListeningReturns([ac EXCEPT !.isProcessing = FALSE])
    /\ UNCHANGED <<props, recorder>>
    /\ AudioStep("other")

\* audio.onplay: the onStart callback of speakText.
PlayStarts ==
    /\ UNCHANGED outsideAudio
    /\ ~ac.effectDue
    /\ pending["play"] > 0
    /\ HasRoom
    /\ pending' = Add(Add(Remove(pending, "play"), "ended"), "playResolve")
    /\ ac' = Render([ac EXCEPT !.isPlaying = TRUE])
    /\ UNCHANGED <<props, recorder>>
    /\ AudioStep("play")

\* speakText after playAudio returned, and its callers' returns.
PlayResolves ==
    /\ UNCHANGED outsideAudio
    /\ ~ac.effectDue
    /\ pending["playResolve"] > 0
    /\ pending' = Remove(pending, "playResolve")
    /\ ac' = StopListeningReturns([ac EXCEPT !.currentAudio = "playing",
                                            !.isProcessing = FALSE])
    /\ UNCHANGED <<props, recorder>>
    /\ AudioStep("other")

\* audio.onended: the onEnd callback of speakText.
AudioEnded ==
    /\ UNCHANGED outsideAudio
    /\ ~ac.effectDue
    /\ pending["ended"] > 0
    /\ pending["playResolve"] = 0
    /\ pending' =
         IF props.continuousMode /\ ac.shouldContinueListening
         THEN Add(Remove(pending, "ended"), "restart")
         ELSE Remove(pending, "ended")
    /\ ac' = Render([ac EXCEPT !.isPlaying = FALSE, !.currentAudio = "none"])
    /\ UNCHANGED <<props, recorder>>
    /\ AudioStep("other")

\* The 500 ms timer armed by onEnd.
RestartTimerFires ==
    /\ UNCHANGED outsideAudio
    /\ ~ac.effectDue
    /\ pending["restart"] > 0
    /\ pending' =
         IF ac.shouldContinueListening
         THEN StartListening(ac, Remove(pending, "restart"))
         ELSE Remove(pending, "restart")
    /\ UNCHANGED <<props, ac, recorder>>
    /\ AudioStep("other")

\* The listener of the window's forceStopListening event.
HandleForceStop ==
    /\ UNCHANGED outsideAudio
    /\ ~ac.effectDue
    /\ audioHist.forceStops < MaxForceStops
    /\ HasRoom
    /\ recorder' = IF IsRecording THEN StoppedRecorder ELSE recorder
    /\ pending' =
         PauseCurrentAudio(IF IsRecording THEN Add(pending, "onstopForce") ELSE pending)
    /\ ac' = Render([ac EXCEPT !.shouldContinueListening = FALSE,
                               !.currentAudio = "none",
                               !.silenceTimer = FALSE,
                               !.isListening = FALSE,
                               !.isPlaying = FALSE,
                               !.isProcessing = FALSE,
                               !.isMuted = TRUE])
    /\ UNCHANGED props
    /\ audioHist' = [forceStops |-> audioHist.forceStops + 1, last |-> "other"]

\* The component after its mount: the recorder is created and
\* checkMicrophonePermission is waiting for the user's answer.
AudioInit(autoStart, continuousMode) ==
    /\ props = [autoStart |-> autoStart, continuousMode |-> continuousMode]
    /\ ac = [isListening |-> FALSE, isPlaying |-> FALSE, isMuted |-> FALSE,
             hasPermission |-> FALSE, isProcessing |-> FALSE,
             shouldContinueListening |-> FALSE, silenceTimer |-> FALSE,
             currentAudio |-> "none", effectDue |-> FALSE]
    /\ recorder = [mediaRecorder |-> "null", recording |-> 0]
    /\ pending = Add(NoPending, "permission")
    /\ audioHist = [forceStops |-> 0, last |-> "other"]

AudioNext ==
    \/ \E granted \in BOOLEAN : PermissionResult(granted)
    \/ AutoStartEffect
    \/ ClickStart
    \/ GetUserMediaResolves
    \/ SilenceTimerFires
    \/ ClickStop
    \/ OnStop
    \/ OnStopForce
    \/ \E ok \in BOOLEAN : SttResponds(ok)
    \/ \E ok \in BOOLEAN : ChatResponds(ok)
    \/ \E ok \in BOOLEAN : TtsResponds(ok)
    \/ PlayStarts
    \/ PlayResolves
    \/ AudioEnded
    \/ RestartTimerFires
    \/ HandleForceStop

\* ============================================================== VideoFeed
\* The webcam panel: one startEmotionDetection loop feeding VideoFeed's
\* callback, which samples the age until it is locked.
HAVE_ENOUGH_DATA == 4
HAVE_CURRENT_DATA == 2
AGE_SAMPLE_COUNT == 3

\* What one step of the loop did.
NoEffect == [invoked |-> FALSE, scheduled |-> FALSE]

\* The end of detectLoop: "if (isRunning) setTimeout(detectLoop, intervalMs)".
ScheduleNext == IF detection.isRunning THEN "timer" ELSE "ended"

\* VideoFeed's callback: an age sample while the age is not locked.
AfterSample ==
    IF ~videoFeed.ageLocked /\ detection.shouldDetectAge
    THEN [videoFeed EXCEPT !.ageSamples = @ + 1,
                           !.ageLocked = videoFeed.ageSamples + 1 >= AGE_SAMPLE_COUNT]
    ELSE videoFeed

\* The video element gains or loses data.
VideoReadyState(r) ==
    /\ UNCHANGED outsideFace
    /\ videoFeed.readyState # r
    /\ videoFeed' = [videoFeed EXCEPT !.readyState = r]
    /\ detection' = [detection EXCEPT !.last = NoEffect]

\* VideoFeed.startDetection, called when the video has loaded or by its own
\* 500 ms retry; and startEmotionDetection with the first run of detectLoop up
\* to its await.
StartDetection ==
    /\ UNCHANGED outsideFace
    /\ videoFeed.startDue
    /\ IF videoFeed.cleanupDetectionRef \/ ~videoFeed.mounted
       THEN /\ videoFeed' = [videoFeed EXCEPT !.startDue = FALSE]
            /\ detection' = [detection EXCEPT !.last = NoEffect]
       ELSE IF videoFeed.readyState # HAVE_ENOUGH_DATA
       THEN /\ UNCHANGED videoFeed
            /\ detection' = [detection EXCEPT !.last = NoEffect]
       ELSE /\ videoFeed' = [videoFeed EXCEPT !.startDue = FALSE,
                                              !.cleanupDetectionRef = TRUE]
            /\ detection' = [detection EXCEPT !.isRunning = TRUE, !.pc = "awaiting",
                                              !.shouldDetectAge = ~videoFeed.ageLocked,
                                              !.last = NoEffect]

\* detectLoop run by its timer, up to its await.
DetectLoop ==
    /\ UNCHANGED outsideFace
    /\ detection.pc = "timer"
    /\ detection' =
         IF ~detection.isRunning
         THEN [detection EXCEPT !.pc = "ended", !.last = NoEffect]
         ELSE IF videoFeed.readyState # HAVE_ENOUGH_DATA
         THEN [detection EXCEPT !.last = [invoked |-> FALSE, scheduled |-> TRUE]]
         ELSE [detection EXCEPT !.pc = "awaiting",
                                !.shouldDetectAge = ~videoFeed.ageLocked,
                                !.last = NoEffect]
    /\ UNCHANGED videoFeed

\* detectLoop after its await: the detection found a face, found none, or
\* threw.
DetectionResolves(outcome) ==
    /\ UNCHANGED outsideFace
    /\ detection.pc = "awaiting"
    /\ outcome = "face" => detection.calls < MaxDetections
    /\ detection' =
         [detection EXCEPT !.pc = ScheduleNext,
                           !.calls = IF outcome = "face" THEN @ + 1 ELSE @,
                           !.last = [invoked |-> outcome = "face",
                                     scheduled |-> ScheduleNext = "timer"]]
    /\ videoFeed' = IF outcome = "face" THEN AfterSample ELSE videoFeed

\* VideoFeed.cleanup, run when the component unmounts.
Cleanup ==
    /\ UNCHANGED outsideFace
    /\ videoFeed.mounted
    /\ videoFeed' = [videoFeed EXCEPT !.mounted = FALSE, !.cleanupDetectionRef = FALSE]
    /\ detection' =
         IF videoFeed.cleanupDetectionRef
         THEN [detection EXCEPT !.isRunning = FALSE, !.cleaned = TRUE, !.last = NoEffect]
         ELSE [detection EXCEPT !.last = NoEffect]

FaceInit ==
    /\ videoFeed = [mounted |-> TRUE, startDue |-> TRUE,
                    cleanupDetectionRef |-> FALSE, ageSamples |-> 0,
                    ageLocked |-> FALSE, readyState |-> HAVE_CURRENT_DATA]
    /\ detection = [isRunning |-> FALSE, pc |-> "none", shouldDetectAge |-> FALSE,
                    calls |-> 0, cleaned |-> FALSE, last |-> NoEffect]

FaceNext ==
    \/ \E r \in {HAVE_CURRENT_DATA, HAVE_ENOUGH_DATA} : VideoReadyState(r)
    \/ StartDetection
    \/ DetectLoop
    \/ \E outcome \in {"face", "none", "error"} : DetectionResolves(outcome)
    \/ Cleanup

ClientInit ==
    /\ ws = NoSock
    /\ reconnectTimer = NoTimer
    /\ sockets = [s \in SocketIds |-> FreeSocket]
    /\ timers = {}
    /\ userDisconnected = FALSE
    /\ consumerConnected = FALSE

HistInit ==
    /\ calls = <<>>
    /\ uncaught = FALSE
    /\ last = [kind |-> "init", sock |-> NoSock, payload |-> NoPayload, pre |-> Snapshot]

\* part_007 exports the mock as SmartSpectraClient too: the consumer's import
\* picks one of the two.
Init ==
    /\ impl \in {"real", "mock"}
    /\ ClientInit
    /\ MockInit
    /\ HistInit
    /\ ServerInit
    /\ MainInit(2, AllOk)
    /\ WireInit(NoSample)
    /\ AudioInit(TRUE, TRUE)
    /\ FaceInit

ClientNext ==
    \/ Connect
    \/ Disconnect
    \/ \E t \in timers : TimerFire(t)
    \/ \E s \in SocketIds : OnOpen(s)
    \/ \E s \in SocketIds : OnError(s)
    \/ \E s \in SocketIds : OnClose(s)
    \/ \E s \in SocketIds, payload \in Payloads : OnMessage(s, payload)

\* The browser side: the consumer's SmartSpectraClient, real or mock.
Next ==
    \/ ClientNext
    \/ MockNext

Spec == Init /\ [][Next]_vars

\* The native helper's broadcast server.
InitServer == Init /\ impl = "real"

SpecServer == InitServer /\ [][ServerNext]_vars

\* The native helper's process: main, Start, Stop and the background thread,
\* for every command line and every answer of the producer and the port.
InitMain ==
    /\ impl = "real"
    /\ ClientInit
    /\ MockInit
    /\ HistInit
    /\ ServerInit
    /\ \E n \in ArgCounts, answers \in Answers : MainInit(n, answers)
    /\ WireInit(NoSample)
    /\ AudioInit(TRUE, TRUE)
    /\ FaceInit

SpecMain == InitMain /\ [][MainNext]_vars

\* The two threads of the process, each scheduled again and again while it
\* has a step to take.
MainThreadNext ==
    \/ MainCheckArgs
    \/ StartSetCore
    \/ StartSetEdge
    \/ StartInitialize
    \/ StartThread
    \/ StartRun
    \/ RunReturns
    \/ StopServer
    \/ StopJoin
    \/ MainReturn
WsThreadNext ==
    \/ WsListen
    \/ WsStartAccept
    \/ WsRun
    \/ WsRunReturns

SpecMainFair ==
    InitMain /\ [][MainNext]_vars /\ WF_vars(MainThreadNext) /\ WF_vars(WsThreadNext)

\* The server object under an owner that may call Stop() more than once.
StopNext ==
    \/ MainNext
    \/ StopAgain

SpecStop == InitMain /\ [][StopNext]_vars

\* One vitals sample from HandleMetrics' text to the client's parsed message.
InitWire ==
    /\ impl = "real"
    /\ ClientInit
    /\ MockInit
    /\ HistInit
    /\ ServerInit
    /\ MainInit(2, AllOk)
    /\ \E sample \in WireSamples : WireInit(sample)
    /\ AudioInit(TRUE, TRUE)
    /\ FaceInit

SpecWire == InitWire /\ [][WireNext]_vars

\* The AudioController, for each value of its two mode props.
InitAudio ==
    /\ impl = "real"
    /\ ClientInit
    /\ MockInit
    /\ HistInit
    /\ ServerInit
    /\ MainInit(2, AllOk)
    /\ WireInit(NoSample)
    /\ \E autoStart \in BOOLEAN, continuousMode \in BOOLEAN :
          AudioInit(autoStart, continuousMode)
    /\ FaceInit

SpecAudio == InitAudio /\ [][AudioNext]_vars

\* VideoFeed with its emotion detection loop.
InitFace == Init /\ impl = "real"

SpecFace == InitFace /\ [][FaceNext]_vars

\* ================================================================= claims
PreConnected == last.pre.ws # NoSock /\ last.pre.sockets[last.pre.ws].state = "OPEN"
PreConnecting == last.pre.ws # NoSock /\ last.pre.sockets[last.pre.ws].state = "CONNECTING"
ConnectRan == last.kind \in {"connect", "timer"}

\* C1: once the consumer has called disconnect() and not connect() since, no
\* reconnect timer is armed and the timer-driven connect() does not run.
C1_NoReconnectAfterDisconnect ==
    userDisconnected => (timers = {} /\ last.kind # "timer")

\* C2: after the close event of a transport the consumer did not disconnect,
\* a reconnect attempt is on its way: the reconnect timeout is armed.
C2_ReconnectFollowsEveryClose ==
    (last.kind = "close" /\ ~last.pre.sockets[last.sock].userClosed /\ ~userDisconnected)
        => timers # {}

\* C3: after a close event the handle is cleared, isConnected() is false, the
\* disconnected callback ran exactly once and exactly one reconnect timeout
\* of 3000 ms is armed.
C3_CloseSchedulesExactlyOne ==
    last.kind = "close" =>
        /\ ws = NoSock
        /\ ~IsConnected
        /\ calls = <<DisconnectedCall>>
        /\ Cardinality(timers) = 1
        /\ \A t \in timers : t.delay = ReconnectDelayMs

\* C4: connect() while the current transport is still CONNECTING creates no
\* transport and leaves the handle unchanged.
C4_ConnectWhileConnectingNoOp ==
    (ConnectRan /\ PreConnecting) => (ws = last.pre.ws /\ sockets = last.pre.sockets)

\* C5: connect() while the current transport is OPEN creates no transport,
\* leaves the handle unchanged and fires no callback.
C5_ConnectWhileConnectedNoOp ==
    (ConnectRan /\ PreConnected) =>
        (ws = last.pre.ws /\ sockets = last.pre.sockets /\ calls = <<>>)
C5_Witness ==
    last.kind = "connect" /\ PreConnected /\ IsConnected

\* C7: at most one reconnect timeout is armed in every reachable state.
C7_AtMostOneTimer ==
    Cardinality(timers) <= 1
\* A close event arrived while a reconnect timeout was already armed.
C7_Witness ==
    last.kind = "close" /\ last.pre.timers # {} /\ Cardinality(timers) = 1

\* C8: a payload that is JSON with a known type and a missing or wrongly
\* typed field fires no callback and leaves the connection state unchanged.
C8_MalformedFieldsDropped ==
    (last.kind = "message" /\ last.payload \in MalformedFields) =>
        /\ calls = <<>>
        /\ ws = last.pre.ws
        /\ sockets[last.sock].state = "OPEN"

\* C9: a payload that is not JSON, or whose type is neither "vitals" nor
\* "breathing_trace", is discarded: nothing escapes the handler, no callback
\* runs, the transport stays open, handle and timer are unchanged; and a
\* valid message after it on the same transport is still dispatched.
C9_UndecodableDiscarded ==
    /\ (last.kind = "message" /\ last.payload \in Undecodable) =>
           /\ ~uncaught
           /\ calls = <<>>
           /\ ws = last.pre.ws
           /\ reconnectTimer = last.pre.reconnectTimer
           /\ timers = last.pre.timers
           /\ \A s \in SocketIds : sockets[s].state = last.pre.sockets[s].state
           /\ sockets[last.sock].state = "OPEN"
    /\ (last.kind = "message" /\ last.pre.sockets[last.sock].gotBad) =>
           /\ last.payload \in ValidVitals => CountCalls("vitals") = 1
           /\ last.payload \in ValidTraces => calls = <<TraceCall(last.payload.value)>>
\* A valid vitals message dispatched on a transport that discarded one before.
C9_Witness ==
    /\ last.kind = "message"
    /\ last.payload \in ValidVitals
    /\ last.pre.sockets[last.sock].gotBad
    /\ CountCalls("vitals") = 1

\* C6: when a Broadcast has returned, a send was attempted to every session
\* registered when it started, the sessions whose send threw included, each
\* of the others got the message, and the session set is the one it started
\* with (a failed send unregistered nobody).
C6_BroadcastSurvivesSendFailure ==
    \A th \in Threads :
        (bc[th].pc = "idle" /\ bc[th].msg # NoMessage) =>
            /\ bc[th].attempted = bc[th].start
            /\ bc[th].sent = bc[th].start \ bc[th].failed
            /\ bc[th].endSet = bc[th].start
            /\ bc[th].failed \subseteq bc[th].endSet
\* A returned Broadcast whose first send threw and whose later send went out.
C6_Witness ==
    \E th \in Threads :
        /\ bc[th].pc = "idle"
        /\ bc[th].msg # NoMessage
        /\ \E k \in bc[th].failed : \E j \in bc[th].sent : k < j

\* The callback after the i-th is the distress callback with the threshold rule's value.
VitalsThenDistress(i) ==
    /\ i < Len(calls)
    /\ calls[i + 1].cb = "distress"
    /\ calls[i + 1].flag = (calls[i].data.pulse.v > 100 /\ calls[i].data.breathing.v > 20)

\* C10: every vitals callback on a sample with numeric pulse and breathing,
\* from the real client's onmessage or from the mock's generateVitals, is
\* followed at once by one distress callback whose argument is
\* pulse > 100 AND breathing > 20 of that sample; a received vitals message
\* causes exactly one of each.
C10_DistressIsThresholdRule ==
    /\ \A i \in 1..Len(calls) :
          (/\ calls[i].cb = "vitals"
           /\ calls[i].data.pulse.t = "num"
           /\ calls[i].data.breathing.t = "num") => VitalsThenDistress(i)
    /\ (last.kind \in {"message", "mockVitals", "mockConnected"} /\ last.payload.type = "vitals")
           => (CountCalls("vitals") = 1 /\ CountCalls("distress") = 1)
\* The boundary: a received sample with pulse 100 and breathing 21 is not distress.
C10_Witness ==
    /\ last.kind = "message"
    /\ last.payload = Obj("vitals", Num(100), Num(21), Undef)
    /\ calls = <<VitalsCall(last.payload), DistressCall(FALSE)>>
\* The mock generated a sample and classified it.
C10_MockWitness ==
    /\ last.kind = "mockVitals"
    /\ CountCalls("distress") = 1

\* C11: a received message of type "vitals" runs the vitals callback once
\* with the message, then the distress callback once, and no trace callback;
\* a received message of type "breathing_trace" runs the trace callback once
\* with the message's value and neither of the other two.
C11_DispatchByType ==
    (last.kind = "message" /\ last.payload.form = "object") =>
        /\ last.payload.type = "vitals" =>
               /\ Len(calls) = 2
               /\ calls[1] = VitalsCall(last.payload)
               /\ calls[2].cb = "distress"
        /\ last.payload.type = "breathing_trace" =>
               calls = <<TraceCall(last.payload.value)>>
\* A breathing-trace message was received and its value handed over.
C11_Witness ==
    /\ last.kind = "message"
    /\ last.payload \in ValidTraces
    /\ calls = <<TraceCall(last.payload.value)>>
\* A vitals message was received: vitals callback, then distress callback.
C11_VitalsWitness ==
    /\ last.kind = "message"
    /\ last.payload \in ValidVitals
    /\ Len(calls) = 2
    /\ calls[1].cb = "vitals"
    /\ calls[2].cb = "distress"

\* The threads that are inside a section of code that reads or writes
\* connections_: the accept thread in a handler body, a producer thread in
\* Broadcast's loop.
InCritical(t) ==
    IF t = "accept" THEN acceptPc.kind # "idle" ELSE bc[t].pc = "send"
HandlerDue ==
    acceptPc.kind = "idle" /\ \E h \in SessionIds : conn[h] \in {"handshaken", "dropped"}

\* C12: at most one thread at a time is inside the open handler's insert, the
\* close handler's erase or Broadcast's iteration, and it owns the mutex.
C12_SessionSetExclusive ==
    /\ Cardinality({t \in Threads \cup {"accept"} : InCritical(t)}) <= 1
    /\ \A t \in Threads \cup {"accept"} : InCritical(t) => connections_mutex_ = t
\* Contention: Broadcast is iterating while a handler is due on the accept
\* thread and the other producer thread waits for the lock.
C12_Witness ==
    /\ HandlerDue
    /\ \E th \in Threads :
          /\ bc[th].pc = "send" /\ bc[th].todo # <<>>
          /\ \E o \in Threads \ {th} : bc[o].pc = "lock"

\* C13: Broadcast owns the mutex only to take its snapshot: a thread with a
\* send still to perform does not own it, so a handler that is due is not
\* kept waiting by a send.
C13_LockOnlyForSnapshot ==
    \A th \in Threads :
        (bc[th].pc = "send" /\ bc[th].todo # <<>>) => connections_mutex_ # th

\* The sessions whose open handler has run and whose close handler has not.
OpenedNotClosed == {h \in SessionIds : conn[h] \in {"open", "dropped"}}

\* C14: connections_ is exactly the set of sessions whose open handler has
\* run and whose close handler has not, whatever broadcasts and send
\* failures happened in between.
C14_SessionSetIsOpenedNotClosed ==
    connections_ = OpenedNotClosed
\* A Broadcast returned after a send threw: the session is still registered
\* (its close handler is yet to run), while another one of the sessions it
\* started with has since been closed and erased.
C14_Witness ==
    \E th \in Threads :
        /\ bc[th].pc = "idle"
        /\ \E h \in bc[th].failed : h \in connections_ /\ conn[h] = "dropped"
        /\ \E h \in bc[th].start : h \notin connections_ /\ conn[h] = "absent"

\* C15: a message is sent at most once to a session, and only to sessions
\* that were registered when its Broadcast started; a session registered
\* later is never sent it.
C15_NoReplay ==
    \A th \in Threads :
        /\ ~bc[th].dup
        /\ bc[th].attempted \subseteq bc[th].start
        /\ bc[th].sent \subseteq bc[th].attempted
        /\ \A i \in 1..Len(bc[th].todo) : bc[th].todo[i] \notin bc[th].attempted
        /\ bc[th].pc = "idle" => bc[th].todo = <<>>
\* A session registered after a Broadcast that went out to another session.
C15_Witness ==
    \E th \in Threads :
        /\ bc[th].pc = "idle"
        /\ bc[th].sent # {}
        /\ \E h \in connections_ : h \notin bc[th].start /\ conn[h] = "open"

\* C16: no send reaches a session ahead of a message whose Broadcast started
\* earlier and is still to be sent to that session.
C16_EmissionOrder ==
    \A th \in Threads : ~bc[th].outOfOrder
\* A session got the message of a Broadcast that has returned and then the
\* message of the Broadcast that is running now.
C16_Witness ==
    \E th \in Threads : \E o \in Threads \ {th} : \E h \in SessionIds :
        /\ bc[o].pc = "idle" /\ h \in bc[o].sent
        /\ bc[th].pc = "send" /\ h \in bc[th].sent
        /\ conn[h] = "open"

\* C17: a returned HandleMetrics has broadcast one vitals message, to every
\* session registered at the start, and returned OK, also when a send threw.
C17_HandleMetricsAlwaysOk ==
    (bc["core"].pc = "idle" /\ bc["core"].msg # NoMessage) =>
        /\ bc["core"].status = "OK"
        /\ bc["core"].msg.type = "vitals"
        /\ bc["core"].attempted = bc["core"].start
\* HandleMetrics returned OK although a send threw.
C17_Witness ==
    /\ bc["core"].pc = "idle"
    /\ bc["core"].msg.type = "vitals"
    /\ bc["core"].failed # {}
    /\ bc["core"].status = "OK"

\* A setup step of main or Start fails before the run loop.
SetupFails == argc < 2 \/ ~producer.coreOk \/ ~producer.edgeOk \/ ~producer.initOk
\* One of Start's three setup calls is rejected or fails.
StartSetupFails == argc >= 2 /\ (~producer.coreOk \/ ~producer.edgeOk \/ ~producer.initOk)

\* C18: when a setup step fails (no credential argument, a callback
\* rejected, Initialize failed), the process does not exit with code 0.
C18_SetupFailureExitsNonZero ==
    (proc.state = "exited" /\ SetupFails) => proc.code # EXIT_SUCCESS

\* C19: when one of Start's setup calls is rejected or fails, Run() is never
\* called and the background thread is never started.
C19_StartStopsOnSetupFailure ==
    StartSetupFails => (~runEntered /\ ws_thread_ = "none" /\ mainPc # "spawn")
\* Start returned at the edge-metrics check, main went through Stop and ended.
C19_Witness ==
    /\ argc >= 2 /\ producer.coreOk /\ ~producer.edgeOk
    /\ proc.state = "exited"
    /\ stopped
    /\ ws_thread_ = "none"

\* C20: when port 8765 cannot be bound, the producer's Run() is never called.
C20_BindFailureStopsStartup ==
    ~producer.bindOk => ~runEntered

\* Stop() has returned: the main thread is past the join.
StopReturned == stops >= 1 /\ mainPc \in {"return", "done"}

\* C21: once Stop() has returned, the background thread has exited (or was
\* never started): it is in none of the steps of its function, so no accept
\* step and no open or close handler can run any more.
C21_NoAcceptAfterStop ==
    StopReturned => (stopped /\ ws_thread_ \in {"none", "joined"})
\* Stop() returned after joining a thread that had been serving.
C21_Witness ==
    StopReturned /\ runEntered /\ ws_thread_ = "joined"

\* C23: no call of Stop() joins a thread that is not joinable, and after a
\* second Stop(), or a Stop() after Start returned early, the server is
\* stopped and owns no running thread.
C23_StopIdempotent ==
    /\ ~joinError
    /\ (StopReturned /\ (stops >= 2 \/ ~runEntered)) =>
           (stopped /\ ws_thread_ \in {"none", "joined"})
\* A second Stop() has returned on a server whose thread the first one joined.
C23_Witness ==
    stops = 2 /\ mainPc = "return" /\ ws_thread_ = "joined" /\ ~joinError
\* Stop() has returned on a server whose Start returned before the thread.
C23_EarlyWitness ==
    StopReturned /\ ~producer.initOk /\ ws_thread_ = "none" /\ argc >= 2

\* C22: disconnect() on a client that holds neither a transport nor a timer
\* (never connected, or just disconnected) changes nothing, closes no
\* transport and throws nothing; and every disconnect() leaves the client
\* in that state, so a second call right after a first is such a no-op.
C22_DisconnectIdempotent ==
    last.kind = "disconnect" =>
        /\ ws = NoSock
        /\ reconnectTimer = NoTimer
        /\ ~uncaught
        /\ calls = <<>>
        /\ (last.pre.ws = NoSock /\ last.pre.reconnectTimer = NoTimer) =>
               (sockets = last.pre.sockets /\ timers = last.pre.timers)
\* disconnect() again, while the transport the first call closed is still
\* closing.
C22_Witness ==
    /\ last.kind = "disconnect"
    /\ last.pre.ws = NoSock /\ last.pre.reconnectTimer = NoTimer
    /\ \E s \in SocketIds :
          last.pre.sockets[s].userClosed /\ last.pre.sockets[s].state = "CLOSING"
    /\ sockets = last.pre.sockets
\* disconnect() on a client that never connected.
C22_FreshWitness ==
    /\ last.kind = "disconnect"
    /\ \A s \in SocketIds : last.pre.sockets[s] = FreeSocket
    /\ last.pre.timers = {}

\* C24: the open event of a transport runs the connected callback once and
\* nothing else, and leaves no reconnect timeout armed or held.
C24_OpenConnectsAndCancels ==
    last.kind = "open" =>
        /\ calls = <<ConnectedCall>>
        /\ reconnectTimer = NoTimer
        /\ timers = {}
\* A transport opened while a reconnect timeout was armed.
C24_Witness ==
    /\ last.kind = "open"
    /\ last.pre.timers # {}
    /\ timers = {}
    /\ calls = <<ConnectedCall>>

\* C25: the error event of a transport leaves handle, timer id and armed
\* timeouts as they were, creates no transport and runs no callback.
C25_ErrorChangesNothing ==
    last.kind = "error" =>
        /\ ws = last.pre.ws
        /\ reconnectTimer = last.pre.reconnectTimer
        /\ timers = last.pre.timers
        /\ calls = <<>>
        /\ ~uncaught
        /\ \A s \in SocketIds : last.pre.sockets[s].state = "FREE" => sockets[s].state = "FREE"
\* An error event on the transport the client holds, open until then.
C25_Witness ==
    /\ last.kind = "error"
    /\ last.sock = ws
    /\ last.pre.sockets[last.sock].state = "OPEN"
    /\ timers = {}

\* C26: isConnected() is true exactly when this.ws is a transport in state
\* OPEN; it is false initially, while the held transport is connecting,
\* after a close event and after disconnect().
C26_IsConnectedIsLiveOpen ==
    /\ IsConnected <=> (ws \in SocketIds /\ sockets[ws].state = "OPEN")
    /\ last.kind \in {"init", "close", "disconnect"} => ~IsConnected
    /\ (ws # NoSock /\ sockets[ws].state = "CONNECTING") => ~IsConnected
\* A client that was connected and now holds a new, still connecting transport.
C26_Witness ==
    /\ ws # NoSock
    /\ sockets[ws].state = "CONNECTING"
    /\ ~IsConnected
    /\ ConnectRan
    /\ \E s \in SocketIds : s # ws /\ sockets[s].state = "CLOSING"

\* The transports of this client that are connecting or open; the handlers
\* connect() attached to a transport are never detached.
LiveSockets == {s \in SocketIds : sockets[s].state \in {"CONNECTING", "OPEN"}}

\* C27: at most one transport created by the client is connecting or open.
C27_SingleLiveTransport ==
    Cardinality(LiveSockets) <= 1

\* C28: a message runs the vitals, distress or trace callback only while the
\* consumer's last news is "connected": not after a disconnected callback
\* or a disconnect() with no connected callback since.
C28_NoUpdatesWhileDisconnected ==
    (last.kind = "message" /\ calls # <<>>) => consumerConnected

\* The last element of a non-empty sequence.
Last(seq) == seq[Len(seq)]
\* The message HandleMetrics built last and the buffer it built it from.
CoreMsg == bc["core"].msg
CoreInput == bc["core"].input

\* C29: the vitals message carries value and confidence of the last entry
\* of the buffer's pulse-rate sequence and of its breathing-rate sequence.
C29_EmitsLastRateEntry ==
    CoreMsg.type = "vitals" =>
        /\ CoreInput.pulseRate # <<>> =>
               /\ CoreMsg.pulse = Last(CoreInput.pulseRate).value
               /\ CoreMsg.pulseConfidence = ToStringFloat(Last(CoreInput.pulseRate).confidence)
        /\ CoreInput.breathingRate # <<>> =>
               /\ CoreMsg.breathing = Last(CoreInput.breathingRate).value
               /\ CoreMsg.breathingConfidence =
                      ToStringFloat(Last(CoreInput.breathingRate).confidence)

\* C30: an empty pulse-rate (breathing-rate) sequence gives confidence 0 and
\* the rate from the buffer's scalar estimate; each confidence depends on
\* its own sequence only, the last entry's when there is one.
C30_EmptyRateDefaults ==
    CoreMsg.type = "vitals" =>
        /\ CoreMsg.pulseConfidence =
               IF CoreInput.pulseRate = <<>> THEN 0
               ELSE ToStringFloat(Last(CoreInput.pulseRate).confidence)
        /\ CoreMsg.breathingConfidence =
               IF CoreInput.breathingRate = <<>> THEN 0
               ELSE ToStringFloat(Last(CoreInput.breathingRate).confidence)
        /\ CoreInput.pulseRate = <<>> => CoreMsg.pulse = StaticCastInt(CoreInput.pulseStrict)
        /\ CoreInput.breathingRate = <<>> =>
               CoreMsg.breathing = StaticCastInt(CoreInput.breathingStrict)
\* A message went out with pulseConfidence 0 (empty pulse-rate sequence) and
\* the breathing-rate sequence's last confidence, 0.85.
C30_Witness ==
    /\ CoreMsg.type = "vitals"
    /\ CoreInput.pulseRate = <<>> /\ CoreInput.breathingRate # <<>>
    /\ CoreMsg.pulseConfidence = 0
    /\ CoreMsg.breathingConfidence = 850000
    /\ CoreMsg.pulse = 102
    /\ bc["core"].sent # {}

\* The edge-metrics callback's record: its message and the trace it got.
EdgeCall == bc["edge"]
EdgeReturned == EdgeCall.pc = "idle" /\ EdgeCall.status # "none"

\* C31: HandleEdgeMetrics with a non-empty upper trace broadcasts one
\* breathing_trace message with the value of the trace's last point, to
\* every session registered then; with an empty trace it broadcasts nothing;
\* it returns OK either way.
C31_EdgeBroadcastsLastPoint ==
    /\ EdgeCall.trace # <<>> =>
           /\ EdgeCall.msg.type = "breathing_trace"
           /\ EdgeCall.msg.value = ToStringFloat(Last(EdgeCall.trace))
    /\ EdgeReturned =>
           /\ EdgeCall.status = "OK"
           /\ EdgeCall.attempted = EdgeCall.start
           /\ EdgeCall.trace = <<>> =>
                  (EdgeCall.msg = NoMessage /\ EdgeCall.attempted = {} /\ EdgeCall.sent = {})
\* A trace of two points went out to a session with the second point's value.
C31_Witness ==
    /\ EdgeReturned
    /\ Len(EdgeCall.trace) = 2
    /\ EdgeCall.sent # {}
    /\ EdgeCall.msg.value = ToStringFloat(EdgeCall.trace[2])
\* The callback returned OK for an empty trace with a session registered.
C31_EmptyWitness ==
    /\ EdgeReturned
    /\ EdgeCall.trace = <<>>
    /\ EdgeCall.msg = NoMessage
    /\ connections_ # {}

\* C32: the message the client parses from the text HandleMetrics built for
\* a sample is of type "vitals" and has the sample's pulse, breathing and
\* both confidences, exactly.
C32_WireRoundTrip ==
    wire.pc = "data" =>
        /\ wire.data.type = "vitals"
        /\ wire.data.pulse = wire.sample.pulse
        /\ wire.data.breathing = wire.sample.breathing
        /\ wire.data.pulseConfidence = wire.sample.pulseConfidence
        /\ wire.data.breathingConfidence = wire.sample.breathingConfidence

\* C33: the disconnected callback runs only for a transport that had
\* opened (and so had run the connected callback): the close event of a
\* transport that was still connecting runs no disconnected callback.
C33_DisconnectedOnlyAfterConnected ==
    (last.kind = "close" /\ last.pre.sockets[last.sock].state = "CONNECTING")
        => CountCalls("disconnected") = 0

\* C34: the close event of a transport that disconnect() closed, arriving
\* when the client holds another transport, leaves that handle in place and
\* arms no reconnect timeout.
C34_LateCloseLeavesCurrent ==
    (/\ last.kind = "close"
     /\ last.pre.sockets[last.sock].userClosed
     /\ last.pre.ws # NoSock /\ last.sock # last.pre.ws) =>
        /\ ws = last.pre.ws
        /\ timers = last.pre.timers
        /\ reconnectTimer = last.pre.reconnectTimer

\* C35: while one callback thread is inside Broadcast's loop, the other has
\* sent its current message to nobody yet or has finished its own loop: the
\* two loops never overlap, so every session sees the two messages in the
\* same order.
C35_BroadcastsSerialized ==
    \A th \in Threads : \A o \in Threads \ {th} :
        bc[th].pc = "send" =>
            /\ bc[o].pc \in {"idle", "lock"}
            /\ bc[o].pc = "lock" => bc[o].attempted = {}
            /\ bc[th].startedAfter = {}
\* One thread is halfway through its loop over two sessions while the other
\* waits for the mutex with its message.
C35_Witness ==
    \E th \in Threads : \E o \in Threads \ {th} :
        /\ bc[th].pc = "send"
        /\ bc[th].sent # {} /\ bc[th].todo # <<>>
        /\ bc[o].pc = "lock"

C37_MockSilentAfterDisconnect ==
    mock.userDisconnected =>
        /\ ~mock.connected
        /\ last.kind \notin {"mockConnected", "mockVitals", "mockTrace"}

\* C38: once the forceStopListening event has been handled, with autoStart
\* and continuousMode set and the component mounted, no step starts a
\* recording and no step begins the playback of assistant audio.
C38_ForceStopPermanent ==
    (props.autoStart /\ props.continuousMode /\ audioHist.forceStops > 0)
        => audioHist.last \notin {"startRecording", "play"}

\* C39: in continuous mode at most one MediaRecorder is recording at any
\* time: startRecording never starts one while the previous one is still
\* recording.
C39_OneRecordingAtATime ==
    props.continuousMode => recorder.recording <= 1

\* C40: after the cleanup function returned by startEmotionDetection has been
\* called, no step of the loop invokes onEmotionDetected and no step
\* schedules another detectLoop.
C40_SilentAfterCleanup ==
    detection.cleaned => ~detection.last.invoked /\ ~detection.last.scheduled
====
